---- MODULE Spec2Model ----
(***************************************************************************)
(* The 128-bit integer codec of the price oracle client                    *)
(* (src/utils/i128-helper.js) and the contract-call argument builder that  *)
(* consumes it (convertToI128ScVal in src/index.js).                       *)
(*                                                                         *)
(* JavaScript BigInt values are arbitrary-precision integers.  They are    *)
(* modelled in sign-magnitude form, [neg, mag], where mag is the sequence  *)
(* of base-2^16 limbs of the absolute value, least significant limb first, *)
(* without high zero limbs (zero is the empty sequence).  Decimal strings  *)
(* are TLA+ strings, produced and parsed digit by digit.                   *)
(***************************************************************************)
EXTENDS Integers, Sequences, FiniteSets, TLC

LimbBits == 2 * 8
Base == 2 ^ LimbBits

(***************************************************************************)
(* Magnitude arithmetic (natural numbers as limb sequences).               *)
(***************************************************************************)
RECURSIVE Norm(_)
Norm(m) ==
    IF m = <<>> THEN <<>>
    ELSE IF m[Len(m)] = 0 THEN Norm(SubSeq(m, 1, Len(m) - 1))
    ELSE m

Limb(m, i) == IF i <= Len(m) THEN m[i] ELSE 0

RECURSIVE MagCmpAt(_, _, _)
MagCmpAt(a, b, i) ==
    IF i = 0 THEN 0
    ELSE IF a[i] > b[i] THEN 1
    ELSE IF a[i] < b[i] THEN -1
    ELSE MagCmpAt(a, b, i - 1)

MagCmp(a, b) ==
    IF Len(a) > Len(b) THEN 1
    ELSE IF Len(a) < Len(b) THEN -1
    ELSE MagCmpAt(a, b, Len(a))

RECURSIVE MagAddAt(_, _, _, _)
MagAddAt(a, b, i, carry) ==
    IF i > Len(a) /\ i > Len(b)
    THEN (IF carry = 0 THEN <<>> ELSE <<carry>>)
    ELSE LET s == Limb(a, i) + Limb(b, i) + carry
         IN  <<s % Base>> \o MagAddAt(a, b, i + 1, s \div Base)

MagAdd(a, b) == MagAddAt(a, b, 1, 0)

RECURSIVE MagSubAt(_, _, _, _)
MagSubAt(a, b, i, borrow) ==
    IF i > Len(a) THEN <<>>
    ELSE LET d == Limb(a, i) - Limb(b, i) - borrow
         IN  <<d % Base>> \o MagSubAt(a, b, i + 1, IF d < 0 THEN 1 ELSE 0)

\* a - b for a >= b
MagSub(a, b) == Norm(MagSubAt(a, b, 1, 0))

\* The product of two limbs as <<low limb, high limb>>, computed in pieces
\* of at most 24 bits.
LimbMul(a, b) ==
    LET bh == b \div 256
        bl == b % 256
        u  == a * bh
        v  == a * bl
        w  == (u % 256) * 256 + v
    IN  <<w % Base, (u \div 256) + (w \div Base)>>

RECURSIVE MagMulLimbAt(_, _, _, _)
MagMulLimbAt(m, d, i, carry) ==
    IF i > Len(m)
    THEN (IF carry = 0 THEN <<>> ELSE <<carry>>)
    ELSE LET p == LimbMul(m[i], d)
             s == p[1] + carry
         IN  <<s % Base>> \o MagMulLimbAt(m, d, i + 1, p[2] + (s \div Base))

\* m * d + carry for a single limb d
MagMulLimb(m, d, carry) == Norm(MagMulLimbAt(m, d, 1, carry))

Zeros(n) == [i \in 1..n |-> 0]

RECURSIVE MagMulAt(_, _, _)
MagMulAt(a, b, i) ==
    IF i > Len(b) THEN <<>>
    ELSE LET row == IF b[i] = 0 THEN <<>>
                    ELSE Zeros(i - 1) \o MagMulLimb(a, b[i], 0)
         IN  MagAdd(Norm(row), MagMulAt(a, b, i + 1))

MagMul(a, b) == IF a = <<>> \/ b = <<>> THEN <<>> ELSE Norm(MagMulAt(a, b, 1))

\* Short division by one small limb d (d * Base fits the machine word):
\* quotient limbs and remainder.
RECURSIVE MagDivLimbAt(_, _, _, _)
MagDivLimbAt(m, d, i, rem) ==
    IF i = 0 THEN [q |-> <<>>, r |-> rem]
    ELSE LET cur  == rem * Base + m[i]
             rest == MagDivLimbAt(m, d, i - 1, cur % d)
         IN  [q |-> rest.q \o <<cur \div d>>, r |-> rest.r]

MagDivLimb(m, d) ==
    LET res == MagDivLimbAt(m, d, Len(m), 0)
    IN  [q |-> Norm(res.q), r |-> res.r]

\* A power of the limb base: <<0, ..., 0, 1>>
IsBasePower(b) ==
    /\ Len(b) >= 1
    /\ b[Len(b)] = 1
    /\ \A i \in 1..(Len(b) - 1) : b[i] = 0

\* A remainder that keeps one limb too many
MagMod_OffByOne(a, b) ==
    IF Len(a) <= Len(b) THEN a ELSE Norm(SubSeq(a, 1, Len(b)))

\* floor(a / b) and a mod b.  Every divisor of the codec is TWO_POW_64, a
\* power of the limb base, for which long division drops or keeps the low
\* Len(b) - 1 limbs.
MagDiv(a, b) ==
    IF Len(a) < Len(b) THEN <<>> ELSE SubSeq(a, Len(b), Len(a))

MagMod(a, b) ==
    IF Len(a) < Len(b) THEN a ELSE Norm(SubSeq(a, 1, Len(b) - 1))

(***************************************************************************)
(* Decimal conversion.                                                     *)
(***************************************************************************)
DigitChar == <<"0", "1", "2", "3", "4", "5", "6", "7", "8", "9">>

DigitVal(c) ==
    IF \E d \in 1..10 : DigitChar[d] = c
    THEN (CHOOSE d \in 1..10 : DigitChar[d] = c) - 1
    ELSE -1

Digit(n, place) == DigitChar[((n \div place) % 10) + 1]

\* Digits are produced and consumed four at a time (10^4 fits one limb).
ChunkLen == 2 + 2
ChunkBase == 10 ^ ChunkLen

\* The four digits of n < 10^4, and its digits without leading zeros
FourDigits(n) == Digit(n, 1000) \o Digit(n, 100) \o Digit(n, 10) \o Digit(n, 1)

LeadDigits(n) ==
    IF n >= 1000 THEN FourDigits(n)
    ELSE IF n >= 100 THEN Digit(n, 100) \o Digit(n, 10) \o Digit(n, 1)
    ELSE IF n >= 10 THEN Digit(n, 10) \o Digit(n, 1)
    ELSE Digit(n, 1)

RECURSIVE MagDigits(_)
MagDigits(m) ==
    LET dm == MagDivLimb(m, ChunkBase)
    IN  IF dm.q = <<>> THEN LeadDigits(dm.r)
        ELSE MagDigits(dm.q) \o FourDigits(dm.r)

MagToString(m) == IF m = <<>> THEN "0" ELSE MagDigits(m)

IsDigits(s) == \A i \in 1..Len(s) : DigitVal(SubSeq(s, i, i)) >= 0

\* The number written by at most four digits
RECURSIVE SmallParse(_)
SmallParse(s) ==
    IF s = "" THEN 0
    ELSE SmallParse(SubSeq(s, 1, Len(s) - 1)) * 10 + DigitVal(SubSeq(s, Len(s), Len(s)))

RECURSIVE MagParseAt(_, _, _)
MagParseAt(s, i, acc) ==
    IF i > Len(s) THEN acc
    ELSE LET left == Len(s) - i + 1
             n    == IF left % ChunkLen = 0 THEN ChunkLen ELSE left % ChunkLen
             next == MagMulLimb(acc, 10 ^ n, SmallParse(SubSeq(s, i, i + n - 1)))
         IN  IF Len(next) >= 0 THEN MagParseAt(s, i + n, next) ELSE <<>>

MagParse(s) == MagParseAt(s, 1, <<>>)

RECURSIVE MagPow(_, _)
MagPow(m, n) ==
    IF n = 0 THEN <<1>>
    ELSE LET h  == MagPow(m, n \div 2)
             sq == MagMul(h, h)
         IN  IF n % 2 = 1 THEN MagMul(sq, m) ELSE sq

(***************************************************************************)
(* BigInt: the operators of the JavaScript primitive used by the codec.    *)
(* There is no negative zero.                                              *)
(***************************************************************************)
BigIntOf(neg, mag) == [neg |-> neg /\ mag # <<>>, mag |-> mag]

BigIntZero == BigIntOf(FALSE, <<>>)

\* x ** n
BigIntPow(x, n) == BigIntOf(x.neg /\ n % 2 = 1, MagPow(x.mag, n))

\* Floored division: the quotient rounds toward minus infinity
BigIntDiv_Floor(x, y) ==
    LET q == MagDiv(x.mag, y.mag)
    IN  IF x.neg # y.neg /\ MagMod(x.mag, y.mag) # <<>>
        THEN BigIntOf(TRUE, MagAdd(q, <<1>>))
        ELSE BigIntOf(x.neg # y.neg, q)

\* Floored remainder: the result has the sign of the divisor
BigIntRem_Floor(x, y) ==
    LET r == MagMod(x.mag, y.mag)
    IN  IF x.neg # y.neg /\ r # <<>>
        THEN BigIntOf(y.neg, MagSub(y.mag, r))
        ELSE BigIntOf(y.neg, r)

\* x / y rounds toward zero
BigIntDiv(x, y) == BigIntOf(x.neg # y.neg, MagDiv(x.mag, y.mag))

\* x % y has the sign of the dividend
BigIntRem(x, y) == BigIntOf(x.neg, MagMod(x.mag, y.mag))

BigIntMul(x, y) == BigIntOf(x.neg # y.neg, MagMul(x.mag, y.mag))

BigIntAdd(x, y) ==
    IF x.neg = y.neg THEN BigIntOf(x.neg, MagAdd(x.mag, y.mag))
    ELSE IF MagCmp(x.mag, y.mag) >= 0
         THEN BigIntOf(x.neg, MagSub(x.mag, y.mag))
         ELSE BigIntOf(y.neg, MagSub(y.mag, x.mag))

BigIntNeg(x) == BigIntOf(~x.neg, x.mag)

\* -1, 0 or 1 as x is below, equal to or above y
BigIntCmp(x, y) ==
    IF x.neg /\ ~y.neg THEN -1
    ELSE IF ~x.neg /\ y.neg THEN 1
    ELSE IF x.neg THEN MagCmp(y.mag, x.mag)
    ELSE MagCmp(x.mag, y.mag)

\* BigInt.prototype.toString()
BigIntToString(x) == (IF x.neg THEN "-" ELSE "") \o MagToString(x.mag)

\* The outcome of a call: a returned value or a thrown error.
Return(v) == [threw |-> FALSE, val |-> v]
Throw == [threw |-> TRUE, val |-> BigIntZero]

\* BigInt(string): an optionally signed run of decimal digits; the empty
\* string is 0n; anything else is a SyntaxError.
StringToBigInt(s) ==
    LET signed == Len(s) >= 1 /\ Head(s) \in {"-", "+"}
        digits == IF signed THEN Tail(s) ELSE s
    IN  IF s = "" THEN Return(BigIntZero)
        ELSE IF digits = "" \/ ~IsDigits(digits) THEN Throw
        ELSE Return(BigIntOf(signed /\ Head(s) = "-", MagParse(digits)))

(***************************************************************************)
(* The codec, BigInt revision (i128-helper.js lines 33-60).                *)
(***************************************************************************)
\* The weight of the high word taken one bit short
TWO_POW_64_OneBitShort == BigIntPow(BigIntOf(FALSE, <<2>>), 63)

TWO_POW_64 == BigIntPow(BigIntOf(FALSE, <<2>>), 64)

\* The standard two's-complement split: floored quotient, unsigned low word
i128ToHiLo_TwosComplement(value) ==
    LET lo == BigIntToString(BigIntRem_Floor(value, TWO_POW_64))
        hi == BigIntToString(BigIntDiv_Floor(value, TWO_POW_64))
    IN  [hi |-> hi, lo |-> lo]

\* The value wrapped to 128 bits before it is split
i128ToHiLo_Wrap128(value) ==
    LET low == BigIntOf(value.neg,
                   Norm(SubSeq(value.mag, 1, IF Len(value.mag) < 8 THEN Len(value.mag) ELSE 8)))
        lo  == BigIntToString(BigIntRem(low, TWO_POW_64))
        hi  == BigIntToString(BigIntDiv(low, TWO_POW_64))
    IN  [hi |-> hi, lo |-> lo]

i128ToHiLo(value) ==
    LET lo == BigIntToString(BigIntRem(value, TWO_POW_64))
        hi == BigIntToString(BigIntDiv(value, TWO_POW_64))
    IN  [hi |-> hi, lo |-> lo]

\* The low word taken as unsigned: its sign is dropped
hiLoToI128_UnsignedLo(hi, lo) ==
    LET h == StringToBigInt(hi)
        l == StringToBigInt(lo)
    IN  IF h.threw \/ l.threw THEN Throw
        ELSE LET hiPart == BigIntMul(h.val, TWO_POW_64)
                 loPart == BigIntOf(FALSE, l.val.mag)
             IN  Return(BigIntAdd(hiPart, loPart))

\* The sum wrapped to 128 bits
hiLoToI128_Wrap128(hi, lo) ==
    LET h == StringToBigInt(hi)
        l == StringToBigInt(lo)
    IN  IF h.threw \/ l.threw THEN Throw
        ELSE LET sum == BigIntAdd(BigIntMul(h.val, TWO_POW_64), l.val)
             IN  Return(BigIntOf(sum.neg,
                        Norm(SubSeq(sum.mag, 1, IF Len(sum.mag) < 8 THEN Len(sum.mag) ELSE 8))))

hiLoToI128(hi, lo) ==
    LET h == StringToBigInt(hi)
        l == StringToBigInt(lo)
    IN  IF h.threw \/ l.threw THEN Throw
        ELSE LET hiPart == BigIntMul(h.val, TWO_POW_64)
                 loPart == l.val
             IN  Return(BigIntAdd(hiPart, loPart))

(***************************************************************************)
(* BigNumber (bignumber.js, default configuration) restricted to integers: *)
(* the methods used by the first revision of the codec.  A BigNumber has a *)
(* sign of its own even when it is zero, and may be NaN.                   *)
(***************************************************************************)
BigNumberOf(neg, mag) == [nan |-> FALSE, neg |-> neg, mag |-> mag]

BigNumberNaN == [nan |-> TRUE, neg |-> FALSE, mag |-> <<>>]

\* new BigNumber(string): an optionally signed run of decimal digits; never
\* throws, an unparsable string (the empty one too) gives NaN
StringToBigNumber(s) ==
    LET signed == Len(s) >= 1 /\ Head(s) \in {"-", "+"}
        digits == IF signed THEN Tail(s) ELSE s
    IN  IF digits = "" \/ ~IsDigits(digits) THEN BigNumberNaN
        ELSE BigNumberOf(signed /\ Head(s) = "-", MagParse(digits))

\* x.pow(n) for an integer n >= 0
BigNumberPow(x, n) == BigNumberOf(x.neg /\ n % 2 = 1, MagPow(x.mag, n))

\* x.modulo(y) under MODULO_MODE = EUCLID: the remainder is never negative
BigNumberModulo_Euclid(x, y) ==
    IF x.nan \/ y.nan \/ y.mag = <<>> THEN BigNumberNaN
    ELSE LET r == MagMod(x.mag, y.mag)
         IN  IF x.neg /\ r # <<>> THEN BigNumberOf(FALSE, MagSub(y.mag, r))
             ELSE BigNumberOf(FALSE, r)

\* x.modulo(y) under MODULO_MODE = ROUND_DOWN: the remainder of the
\* truncated division, a zero remainder keeping the sign of x
BigNumberModulo(x, y) ==
    IF x.nan \/ y.nan \/ y.mag = <<>> THEN BigNumberNaN
    ELSE BigNumberOf(x.neg, MagMod(x.mag, y.mag))

\* x.idiv(y): the integer part of the quotient
BigNumberIdiv(x, y) ==
    IF x.nan \/ y.nan \/ y.mag = <<>> THEN BigNumberNaN
    ELSE BigNumberOf(x.neg # y.neg, MagDiv(x.mag, y.mag))

BigNumberTimes(x, y) ==
    IF x.nan \/ y.nan THEN BigNumberNaN
    ELSE BigNumberOf(x.neg # y.neg, MagMul(x.mag, y.mag))

BigNumberPlus(x, y) ==
    IF x.nan \/ y.nan THEN BigNumberNaN
    ELSE IF x.neg = y.neg THEN BigNumberOf(x.neg, MagAdd(x.mag, y.mag))
    ELSE LET c == MagCmp(x.mag, y.mag)
         IN  IF c = 0 THEN BigNumberOf(FALSE, <<>>)
             ELSE IF c > 0 THEN BigNumberOf(x.neg, MagSub(x.mag, y.mag))
             ELSE BigNumberOf(y.neg, MagSub(y.mag, x.mag))

\* The notation of x.valueOf(): a negative zero keeps its minus sign
BigNumberToFixed_SignedZero(x) ==
    IF x.nan THEN "NaN"
    ELSE (IF x.neg THEN "-" ELSE "") \o MagToString(x.mag)

\* x.toFixed(): normal notation, no minus sign on a zero
BigNumberToFixed(x) ==
    IF x.nan THEN "NaN"
    ELSE (IF x.neg /\ x.mag # <<>> THEN "-" ELSE "") \o MagToString(x.mag)

(***************************************************************************)
(* The codec, BigNumber revision (i128-helper.js lines 1-31).              *)
(***************************************************************************)
TWO_POW_64_BigNumber == BigNumberPow(BigNumberOf(FALSE, <<2>>), 64)

i128ToHiLoBigNumber(value) ==
    LET lo == BigNumberToFixed(BigNumberModulo(value, TWO_POW_64_BigNumber))
        hi == BigNumberToFixed(BigNumberIdiv(value, TWO_POW_64_BigNumber))
    IN  [hi |-> hi, lo |-> lo]

hiLoToI128BigNumber(hi, lo) ==
    LET hiPart == BigNumberTimes(StringToBigNumber(hi), TWO_POW_64_BigNumber)
        loPart == StringToBigNumber(lo)
    IN  Return(BigNumberPlus(hiPart, loPart))

(***************************************************************************)
(* The contract-call argument builder (index.js, convertToI128ScVal).      *)
(***************************************************************************)
INT64_MIN == BigIntNeg(BigIntPow(BigIntOf(FALSE, <<2>>), 63))
INT64_MAX == BigIntAdd(BigIntPow(BigIntOf(FALSE, <<2>>), 63), BigIntOf(TRUE, <<1>>))
UINT64_MAX == BigIntAdd(BigIntPow(BigIntOf(FALSE, <<2>>), 64), BigIntOf(TRUE, <<1>>))

\* xdr.Int64.fromString: a decimal string of a signed 64-bit integer
Int64FromString(s) ==
    LET minus  == Len(s) >= 1 /\ Head(s) = "-"
        digits == IF minus THEN Tail(s) ELSE s
        n      == BigIntOf(minus, MagParse(digits))
    IN  IF digits = "" \/ ~IsDigits(digits) THEN Throw
        ELSE IF BigIntCmp(n, INT64_MIN) < 0 \/ BigIntCmp(n, INT64_MAX) > 0 THEN Throw
        ELSE Return(n)

\* The low word built with the signed constructor
Uint64FromString_Signed(s) == Int64FromString(s)

\* xdr.Uint64.fromString: a decimal string of an unsigned 64-bit integer
Uint64FromString(s) ==
    LET n == BigIntOf(FALSE, MagParse(s))
    IN  IF s = "" \/ ~IsDigits(s) THEN Throw
        ELSE IF BigIntCmp(n, UINT64_MAX) > 0 THEN Throw
        ELSE Return(n)

Revisions == {"BigNumber", "BigInt"}

\* A condition that tests for null and undefined only (value != null)
Truthy_NotNull(rev, value) == "missing" \notin DOMAIN value

\* JavaScript truthiness of the value: null, undefined and 0n are falsy, an
\* object is truthy
Truthy(rev, value) ==
    /\ "missing" \notin DOMAIN value
    /\ rev = "BigNumber" \/ value.mag # <<>>

Encode(rev, value) ==
    IF rev = "BigInt" THEN i128ToHiLo(value) ELSE i128ToHiLoBigNumber(value)

Decode(rev, hi, lo) ==
    IF rev = "BigInt" THEN hiLoToI128(hi, lo) ELSE hiLoToI128BigNumber(hi, lo)

\* The Int128Parts built from the pair, or the error of the word constructors
Int128Parts(pair) ==
    LET hi == Int64FromString(pair.hi)
        lo == Uint64FromString(pair.lo)
    IN  [threw |-> hi.threw \/ lo.threw, hi |-> hi.val, lo |-> lo.val]

convertToI128ScVal(rev, value) ==
    Int128Parts(IF Truthy(rev, value) THEN Encode(rev, value)
                ELSE [hi |-> "0", lo |-> "0"])

(***************************************************************************)
(* Inputs.                                                                 *)
(***************************************************************************)
MaxBits == 130

\* The authoritative values of the unit tests, as written there.
testValues == <<
    [value |-> "0", hi |-> "0", lo |-> "0"],
    [value |-> "1", hi |-> "0", lo |-> "1"],
    [value |-> "-1", hi |-> "0", lo |-> "-1"],
    [value |-> "123456789012345678901234567890",
     hi |-> "6692605942", lo |-> "14083847773837265618"],
    [value |-> "-123456789012345678901234567890",
     hi |-> "-6692605942", lo |-> "-14083847773837265618"],
    [value |-> "170141183460469231731687303715884105727",
     hi |-> "9223372036854775807", lo |-> "18446744073709551615"],
    [value |-> "-170141183460469231731687303715884105728",
     hi |-> "-9223372036854775808", lo |-> "0"] >>

Min(a, b) == IF a < b THEN a ELSE b
Max(a, b) == IF a > b THEN a ELSE b

\* Bit positions next to the limb and word boundaries
BitPos == {b \in 0..MaxBits : b % LimbBits \in {0, 1, LimbBits \div 2, LimbBits - 1}}

\* 2^j - 2^k for j > k: the bits k .. j-1 set
OnesMag(j, k) ==
    Norm([i \in 1..((j + LimbBits - 1) \div LimbBits) |->
            LET low == LimbBits * (i - 1)
                top == Min(j, low + LimbBits)
                bot == Max(k, low)
            IN  IF top > bot THEN 2 ^ (top - low) - 2 ^ (bot - low) ELSE 0])

\* 2^j + 2^k for j > k: the bits j and k set
TwoBitMag(j, k) ==
    [i \in 1..((j \div LimbBits) + 1) |->
        (IF j \div LimbBits = i - 1 THEN 2 ^ (j % LimbBits) ELSE 0)
      + (IF k \div LimbBits = i - 1 THEN 2 ^ (k % LimbBits) ELSE 0)]

Magnitudes ==
    {OnesMag(j, k) : j \in BitPos, k \in BitPos} \cup
    UNION {{TwoBitMag(j, k) : k \in {b \in BitPos : b < j}} : j \in BitPos}

Values ==
    {StringToBigInt(testValues[i].value).val : i \in DOMAIN testValues} \cup
    {BigIntOf(neg, m) : neg \in BOOLEAN, m \in Magnitudes}

\* The values handed to the codec of a revision: BigInts, or BigNumbers
\* (among them the negative zero)
ValueOf(rev, v) == IF rev = "BigInt" THEN v ELSE BigNumberOf(v.neg, v.mag)

Inputs(rev) ==
    {ValueOf(rev, v) : v \in Values} \cup
    (IF rev = "BigInt" THEN {} ELSE {BigNumberOf(TRUE, <<>>)})

\* Decimal strings of integers around the 64- and 128-bit boundaries, some
\* of them not canonical, and strings that are not integers.  (No string
\* holds white space, a radix prefix, a fraction or an exponent.)
IntegerStrings ==
    {"0", "-0", "1", "-1", "+5", "007",
     "9223372036854775807", "9223372036854775808",
     "-9223372036854775808", "-9223372036854775809",
     "18446744073709551615", "18446744073709551616", "-18446744073709551616",
     "340282366920938463463374607431768211456",
     "-170141183460469231731687303715884105729"}

MalformedStrings == {"", "abc", "-", "12a"}

GivenPairs ==
    {[hi |-> testValues[i].hi, lo |-> testValues[i].lo] : i \in DOMAIN testValues} \cup
    {[hi |-> h, lo |-> l] : h \in IntegerStrings \cup MalformedStrings,
                            l \in IntegerStrings \cup MalformedStrings}

\* The values of a field that is not there (config without baseFee)
MissingValues ==
    {[neg |-> FALSE, mag |-> <<>>, missing |-> m] : m \in {"null", "undefined"}}

NoPair == [hi |-> "", lo |-> ""]
NoResult == Return(BigIntZero)
NoScVal == [threw |-> FALSE, hi |-> BigIntZero, lo |-> BigIntZero]

(***************************************************************************)
(* State: one use of the codec by a caller.                                *)
(***************************************************************************)
VARIABLES
    rev,        \* the revision of i128-helper.js in use
    origin,     \* "value": the caller starts from a value; "pair": from a pair;
                \* "missing": from a field that is not there
    value,      \* the value handed to i128ToHiLo
    pc,         \* "start", "encoded", "decoded", "reencoded", "converted"
    pair,       \* the {hi, lo} returned by i128ToHiLo, or handed to hiLoToI128
    decoded,    \* the outcome of hiLoToI128(pair.hi, pair.lo)
    pair2,      \* the {hi, lo} returned by i128ToHiLo(decoded)
    scval,      \* the outcome of convertToI128ScVal(value)
    calls,      \* the calls in progress of concurrent callers
    locals      \* the local constants (lo, hi, hiPart, loPart) of each call

\* The state of one call of submitTransaction and of the server it talks to
VARIABLES
    line,         \* the statement of submitTransaction the call is at
    args,         \* the arguments transaction and signatures
    tx,           \* the signatures of the copy that is sent
    submitResult, \* the answer of server.sendTransaction
    hash,         \* const hash = submitResult.hash
    response,     \* let response
    server,       \* what the server has received and last answered
    outcome       \* the return value or the error of the call

SubmitVars == <<line, args, tx, submitResult, hash, response, server, outcome>>

NoResponse == [status |-> "", hash |-> ""]
NoOutcome == [kind |-> "none", value |-> NoResponse, error |-> ""]
NoServer == [sent |-> <<>>, asked |-> "", answer |-> NoResponse, polls |-> 0]

\* No call of submitTransaction is under way
SubmitIdle ==
    /\ line = "idle"
    /\ args = [transaction |-> <<>>, signatures |-> <<>>]
    /\ tx = <<>>
    /\ submitResult = NoResponse
    /\ hash = ""
    /\ response = NoResponse
    /\ server = NoServer
    /\ outcome = NoOutcome

vars == <<rev, origin, value, pc, pair, decoded, pair2, scval, calls, locals,
          SubmitVars>>

Init ==
    /\ rev \in Revisions
    /\ \/ /\ origin = "value"
          /\ value \in Inputs(rev)
          /\ pc = "start"
          /\ pair = NoPair
       \/ /\ origin = "pair"
          /\ value = ValueOf(rev, BigIntZero)
          /\ pc = "encoded"
          /\ pair \in GivenPairs
       \/ /\ origin = "missing"
          /\ value \in MissingValues
          /\ pc = "start"
          /\ pair = NoPair
    /\ decoded = NoResult
    /\ pair2 = NoPair
    /\ scval = NoScVal
    /\ calls = <<>>
    /\ locals = <<>>
    /\ SubmitIdle

\* An encoder that reduces its argument in place while splitting it
CallI128ToHiLo_InPlace ==
    /\ origin = "value"
    /\ pc = "start"
    /\ pair' = Encode(rev, value)
    /\ value' = IF rev = "BigInt" THEN BigIntRem(value, TWO_POW_64)
                ELSE BigNumberModulo(value, TWO_POW_64_BigNumber)
    /\ pc' = "encoded"
    /\ UNCHANGED <<rev, origin, decoded, pair2, scval, calls, locals, SubmitVars>>

\* const {hi, lo} = i128ToHiLo(value)
CallI128ToHiLo ==
    /\ origin = "value"
    /\ pc = "start"
    /\ pair' = Encode(rev, value)
    /\ pc' = "encoded"
    /\ UNCHANGED <<rev, origin, value, decoded, pair2, scval, calls, locals, SubmitVars>>

\* const actualValue = hiLoToI128(hi, lo)
CallHiLoToI128 ==
    /\ pc = "encoded"
    /\ decoded' = Decode(rev, pair.hi, pair.lo)
    /\ pc' = "decoded"
    /\ UNCHANGED <<rev, origin, value, pair, pair2, scval, calls, locals, SubmitVars>>

\* i128ToHiLo(hiLoToI128(hi, lo))
CallI128ToHiLoAgain ==
    /\ pc = "decoded"
    /\ ~decoded.threw
    /\ pair2' = Encode(rev, decoded.val)
    /\ pc' = "reencoded"
    /\ UNCHANGED <<rev, origin, value, pair, decoded, scval, calls, locals, SubmitVars>>

\* convertToI128ScVal(value), as setPrice and config call it; pair is what
\* the call of i128ToHiLo inside it returns, when there is one
CallConvertToI128ScVal ==
    /\ pc = "start"
    /\ pair' = IF Truthy(rev, value) THEN Encode(rev, value) ELSE NoPair
    /\ scval' = convertToI128ScVal(rev, value)
    /\ pc' = "converted"
    /\ UNCHANGED <<rev, origin, value, decoded, pair2, calls, locals, SubmitVars>>

Next ==
    \/ CallI128ToHiLo
    \/ CallHiLoToI128
    \/ CallI128ToHiLoAgain
    \/ CallConvertToI128ScVal

Spec == Init /\ [][Next]_vars

(***************************************************************************)
(* Concurrent callers: several calls of the codec in progress at once,     *)
(* each advancing one statement of its function body at a time.            *)
(***************************************************************************)
NumCallers == 2

Callers == 1..NumCallers

\* The rows of testValues the concurrent callers draw their arguments from
CallRows == {i \in DOMAIN testValues : testValues[i].value \in
               {"-1", "-123456789012345678901234567890",
                "170141183460469231731687303715884105727"}}

NoLocals == [lo |-> "", hi |-> "", hiPart |-> BigIntZero, loPart |-> BigIntZero]

\* One storage for the constants of all the calls
Frame_Shared(c) == 1

\* const lo, const hi, const hiPart, const loPart are local to each call
Frame(c) == c

\* The statements of i128ToHiLo and hiLoToI128 in either revision
LoOf(r, v) ==
    IF r = "BigInt" THEN BigIntToString(BigIntRem(v, TWO_POW_64))
    ELSE BigNumberToFixed(BigNumberModulo(v, TWO_POW_64_BigNumber))

HiOf(r, v) ==
    IF r = "BigInt" THEN BigIntToString(BigIntDiv(v, TWO_POW_64))
    ELSE BigNumberToFixed(BigNumberIdiv(v, TWO_POW_64_BigNumber))

HiPartOf(r, hi) ==
    IF r = "BigInt"
    THEN LET h == StringToBigInt(hi)
         IN  IF h.threw THEN Throw ELSE Return(BigIntMul(h.val, TWO_POW_64))
    ELSE Return(BigNumberTimes(StringToBigNumber(hi), TWO_POW_64_BigNumber))

LoPartOf(r, lo) ==
    IF r = "BigInt" THEN StringToBigInt(lo) ELSE Return(StringToBigNumber(lo))

SumOf(r, hiPart, loPart) ==
    IF r = "BigInt" THEN BigIntAdd(hiPart, loPart) ELSE BigNumberPlus(hiPart, loPart)

InitConcurrent ==
    /\ rev \in Revisions
    /\ origin = "value"
    /\ value = ValueOf(rev, BigIntZero)
    /\ pc = "concurrent"
    /\ pair = NoPair
    /\ decoded = NoResult
    /\ pair2 = NoPair
    /\ scval = NoScVal
    /\ calls \in [Callers ->
         {[op |-> "i128ToHiLo", line |-> 1,
           value |-> ValueOf(rev, StringToBigInt(testValues[i].value).val),
           hi |-> "", lo |-> "", result |-> NoPair] : i \in CallRows} \cup
         {[op |-> "hiLoToI128", line |-> 1, value |-> ValueOf(rev, BigIntZero),
           hi |-> testValues[i].hi, lo |-> testValues[i].lo,
           result |-> NoResult] : i \in CallRows}]
    /\ locals = [f \in Callers |-> NoLocals]
    /\ SubmitIdle

Main == <<rev, origin, value, pc, pair, decoded, pair2, scval, SubmitVars>>

\* const lo = (value % TWO_POW_64).toString()
StepLo(c) ==
    /\ calls[c].op = "i128ToHiLo" /\ calls[c].line = 1
    /\ locals' = [locals EXCEPT ![Frame(c)].lo = LoOf(rev, calls[c].value)]
    /\ calls' = [calls EXCEPT ![c].line = 2]
    /\ UNCHANGED Main

\* const hi = (value / TWO_POW_64).toString()
StepHi(c) ==
    /\ calls[c].op = "i128ToHiLo" /\ calls[c].line = 2
    /\ locals' = [locals EXCEPT ![Frame(c)].hi = HiOf(rev, calls[c].value)]
    /\ calls' = [calls EXCEPT ![c].line = 3]
    /\ UNCHANGED Main

\* return {hi, lo}
StepReturnPair(c) ==
    /\ calls[c].op = "i128ToHiLo" /\ calls[c].line = 3
    /\ calls' = [calls EXCEPT ![c].line = 0,
                              ![c].result = [hi |-> locals[Frame(c)].hi,
                                             lo |-> locals[Frame(c)].lo]]
    /\ UNCHANGED <<Main, locals>>

\* const hiPart = BigInt(hi) * TWO_POW_64
StepHiPart(c) ==
    /\ calls[c].op = "hiLoToI128" /\ calls[c].line = 1
    /\ LET part == HiPartOf(rev, calls[c].hi)
       IN  IF part.threw
           THEN /\ calls' = [calls EXCEPT ![c].line = 0, ![c].result = Throw]
                /\ UNCHANGED locals
           ELSE /\ locals' = [locals EXCEPT ![Frame(c)].hiPart = part.val]
                /\ calls' = [calls EXCEPT ![c].line = 2]
    /\ UNCHANGED Main

\* const loPart = BigInt(lo)
StepLoPart(c) ==
    /\ calls[c].op = "hiLoToI128" /\ calls[c].line = 2
    /\ LET part == LoPartOf(rev, calls[c].lo)
       IN  IF part.threw
           THEN /\ calls' = [calls EXCEPT ![c].line = 0, ![c].result = Throw]
                /\ UNCHANGED locals
           ELSE /\ locals' = [locals EXCEPT ![Frame(c)].loPart = part.val]
                /\ calls' = [calls EXCEPT ![c].line = 3]
    /\ UNCHANGED Main

\* return hiPart + loPart
StepReturnSum(c) ==
    /\ calls[c].op = "hiLoToI128" /\ calls[c].line = 3
    /\ calls' = [calls EXCEPT ![c].line = 0,
                              ![c].result = Return(SumOf(rev, locals[Frame(c)].hiPart,
                                                         locals[Frame(c)].loPart))]
    /\ UNCHANGED <<Main, locals>>

NextConcurrent ==
    \E c \in Callers :
        \/ StepLo(c)
        \/ StepHi(c)
        \/ StepReturnPair(c)
        \/ StepHiPart(c)
        \/ StepLoPart(c)
        \/ StepReturnSum(c)

SpecConcurrent == InitConcurrent /\ [][NextConcurrent]_vars

(***************************************************************************)
(* submitTransaction: send the signed copy, then poll getTransaction until *)
(* the status is final.                                                    *)
(***************************************************************************)
MaxPolls == 3

Hashes == {"h1", "h2"}

\* The statuses server.sendTransaction answers with
SubmitStatuses == {"PENDING", "DUPLICATE", "TRY_AGAIN_LATER", "ERROR"}

\* The statuses server.getTransaction answers with
PollStatuses == {"PENDING", "NOT_FOUND", "SUCCESS", "FAILED"}

\* The answers of server.getTransaction; hash is "" when the answer has no
\* such field
Answers == [status : PollStatuses, hash : Hashes \cup {""}]

\* A loop that never takes a status for final
KeepPolling_Always(status) == TRUE

\* A loop that waits while the status is 'PENDING' only
KeepPolling_PendingOnly(status) == status = "PENDING"

\* response.status === "PENDING" || response.status === "NOT_FOUND"
KeepPolling(status) == status = "PENDING" \/ status = "NOT_FOUND"

\* The server is asked for the transaction h and gives the answer a
Asked(h, a) ==
    [server EXCEPT !.asked = h, !.answer = a, !.polls = Min(@ + 1, MaxPolls)]

Codec == <<rev, origin, value, pc, pair, decoded, pair2, scval, calls, locals>>

InitSubmit ==
    /\ rev = "BigInt"
    /\ origin = "value"
    /\ value = BigIntZero
    /\ pc = "submit"
    /\ pair = NoPair
    /\ decoded = NoResult
    /\ pair2 = NoPair
    /\ scval = NoScVal
    /\ calls = <<>>
    /\ locals = <<>>
    /\ line = "copy"
    /\ args \in [transaction : {<<>>, <<"sigA">>}, signatures : {<<>>, <<"sigB">>}]
    /\ tx = <<>>
    /\ submitResult = NoResponse
    /\ hash = ""
    /\ response = NoResponse
    /\ server = NoServer
    /\ outcome = NoOutcome

\* const tx = new Transaction(transaction.toXDR(), this.network);
\* signatures.forEach(signature => tx.addDecoratedSignature(signature))
CopyAndSign ==
    /\ line = "copy"
    /\ tx' = args.transaction \o args.signatures
    /\ line' = "send"
    /\ UNCHANGED <<Codec, args, submitResult, hash, response, server, outcome>>

\* const submitResult = await this.server.sendTransaction(tx), then the test
\* of its status and const hash = submitResult.hash
SendTransaction ==
    /\ line = "send"
    /\ \E status \in SubmitStatuses, h \in Hashes :
        /\ submitResult' = [status |-> status, hash |-> h]
        /\ server' = [server EXCEPT !.sent = tx]
        /\ IF status # "PENDING"
           THEN /\ outcome' = [kind |-> "thrown", value |-> NoResponse,
                               error |-> "Transaction submit failed: " \o status]
                /\ line' = "done"
                /\ UNCHANGED hash
           ELSE /\ hash' = h
                /\ line' = "first"
                /\ UNCHANGED outcome
    /\ UNCHANGED <<Codec, args, tx, response>>

\* let response = await this.getTransaction(hash)
FirstGetTransaction ==
    /\ line = "first"
    /\ \E a \in Answers :
        /\ response' = a
        /\ server' = Asked(hash, a)
    /\ line' = "while"
    /\ UNCHANGED <<Codec, args, tx, submitResult, hash, outcome>>

\* while (response.status === "PENDING" || response.status === "NOT_FOUND")
TestStatus ==
    /\ line = "while"
    /\ line' = IF KeepPolling(response.status) THEN "poll" ELSE "setHash"
    /\ UNCHANGED <<Codec, args, tx, submitResult, hash, response, server, outcome>>

\* response = await this.getTransaction(hash)
GetTransaction ==
    /\ line = "poll"
    /\ \E a \in Answers :
        /\ response' = a
        /\ server' = Asked(hash, a)
    /\ line' = "sleep"
    /\ UNCHANGED <<Codec, args, tx, submitResult, hash, outcome>>

\* await new Promise(resolve => setTimeout(resolve, 500))
Sleep ==
    /\ line = "sleep"
    /\ line' = "while"
    /\ UNCHANGED <<Codec, args, tx, submitResult, hash, response, server, outcome>>

\* response.hash = hash
SetHash ==
    /\ line = "setHash"
    /\ response' = [response EXCEPT !.hash = hash]
    /\ line' = "return"
    /\ UNCHANGED <<Codec, args, tx, submitResult, hash, server, outcome>>

\* return response
ReturnResponse ==
    /\ line = "return"
    /\ outcome' = [kind |-> "returned", value |-> response, error |-> ""]
    /\ line' = "done"
    /\ UNCHANGED <<Codec, args, tx, submitResult, hash, response, server>>

\* An awaited call of the server is rejected: the error leaves the function
Rejected ==
    /\ line \in {"send", "first", "poll"}
    /\ server' = IF line = "send" THEN [server EXCEPT !.sent = tx]
                 ELSE [server EXCEPT !.asked = hash]
    /\ outcome' = [kind |-> "thrown", value |-> NoResponse, error |-> "rejected"]
    /\ line' = "done"
    /\ UNCHANGED <<Codec, args, tx, submitResult, hash, response>>

NextSubmit ==
    \/ CopyAndSign
    \/ SendTransaction
    \/ FirstGetTransaction
    \/ TestStatus
    \/ GetTransaction
    \/ Sleep
    \/ SetHash
    \/ ReturnResponse
    \/ Rejected

SpecSubmit == InitSubmit /\ [][NextSubmit]_vars

\* The event loop resumes the call whenever the promise it awaits is settled,
\* and every promise it awaits is settled: by an answer, an error or the timer
SpecSubmitLive == SpecSubmit /\ WF_vars(NextSubmit)

(***************************************************************************)
(* Properties.                                                             *)
(***************************************************************************)
\* The integer a BigInt or BigNumber stands for (a negative zero is zero)
Num(v) == BigIntOf(v.neg, v.mag)

\* The integer written by a decimal string
IntOf(s) == BigIntOf(Len(s) >= 1 /\ Head(s) = "-",
                     MagParse(IF Len(s) >= 1 /\ Head(s) \in {"-", "+"}
                              THEN Tail(s) ELSE s))

\* s is a signed base-10 integer
IsInteger(s) ==
    LET digits == IF Len(s) >= 1 /\ Head(s) \in {"-", "+"} THEN Tail(s) ELSE s
    IN  digits # "" /\ IsDigits(digits)

\* The value returned by a call is a number
IsNumber(v) == ~("nan" \in DOMAIN v /\ v.nan)

I128_MIN == BigIntNeg(BigIntPow(BigIntOf(FALSE, <<2>>), 127))
I128_MAX == BigIntAdd(BigIntPow(BigIntOf(FALSE, <<2>>), 127), BigIntOf(TRUE, <<1>>))

InRange(v) == BigIntCmp(Num(v), I128_MIN) >= 0 /\ BigIntCmp(Num(v), I128_MAX) <= 0

Two64 == MagPow(<<2>>, 64)

\* m is a multiple of 2^64: its four low limbs are zero
IsMultipleOfTwo64(m) == \A i \in 1..Min(64 \div LimbBits, Len(m)) : m[i] = 0

\* i128ToHiLo(value) has returned pair
Encoded == origin = "value" /\ pc \in {"encoded", "decoded", "reencoded"}

\* C1: round trip - for every value in [-2^127, 2^127-1], hiLoToI128 applied
\* to the pair returned by i128ToHiLo(value) returns exactly value.
C1_RoundTrip ==
    (origin = "value" /\ pc \in {"decoded", "reencoded"} /\ InRange(value))
        => (~decoded.threw /\ ~("nan" \in DOMAIN decoded.val /\ decoded.val.nan)
            /\ Num(decoded.val) = Num(value))

C1_Witness ==
    /\ origin = "value" /\ pc = "decoded" /\ InRange(value)
    /\ value.neg /\ pair.hi # "0" /\ pair.lo # "0"
    /\ Num(decoded.val) = Num(value)

\* C2: exact decomposition - for every value in [-2^127, 2^127-1] the pair
\* returned by i128ToHiLo satisfies hi * 2^64 + lo = value.
C2_ExactDecomposition ==
    (Encoded /\ InRange(value))
        => BigIntAdd(BigIntMul(IntOf(pair.hi), BigIntOf(FALSE, Two64)),
                     IntOf(pair.lo)) = Num(value)

C2_Witness ==
    /\ Encoded /\ pc = "encoded" /\ InRange(value)
    /\ value.neg /\ Len(value.mag) > 64 \div LimbBits
    /\ ~IsMultipleOfTwo64(value.mag)

\* C3 as stated: for every value in [-2^127, 2^127-1] the lo part lies in the
\* signed 64-bit range [-2^63, 2^63-1].
C3_LoInSigned64 ==
    (Encoded /\ InRange(value))
        => /\ BigIntCmp(IntOf(pair.lo), INT64_MIN) >= 0
           /\ BigIntCmp(IntOf(pair.lo), INT64_MAX) <= 0

\* C3 amended: for every value in [-2^127, 2^127-1] the lo part lies in
\* [-(2^64-1), 2^64-1]; it may exceed the signed 64-bit range.
C3_LoBelowTwo64 ==
    (Encoded /\ InRange(value))
        => /\ BigIntCmp(IntOf(pair.lo), BigIntNeg(UINT64_MAX)) >= 0
           /\ BigIntCmp(IntOf(pair.lo), UINT64_MAX) <= 0

C3_Witness ==
    /\ Encoded /\ InRange(value)
    /\ BigIntCmp(IntOf(pair.lo), INT64_MAX) > 0
    /\ pair.hi # "0"

\* C4: for every value in [-2^127, 2^127-1] convertToI128ScVal accepts the
\* pair of i128ToHiLo - hi as a signed and lo as an unsigned 64-bit word -
\* and the two words represent value (hi * 2^64 + lo = value).
C4_ValidWireField ==
    (pc = "converted" /\ InRange(value))
        => /\ ~scval.threw
           /\ BigIntCmp(scval.hi, INT64_MIN) >= 0
           /\ BigIntCmp(scval.hi, INT64_MAX) <= 0
           /\ BigIntCmp(scval.lo, BigIntZero) >= 0
           /\ BigIntCmp(scval.lo, UINT64_MAX) <= 0
           /\ BigIntAdd(BigIntMul(scval.hi, BigIntOf(FALSE, Two64)), scval.lo)
                = Num(value)

\* The authoritative table of the specification
C5_Table == <<
    <<"0", "0", "0">>,
    <<"1", "0", "1">>,
    <<"-1", "0", "-1">>,
    <<"123456789012345678901234567890", "6692605942", "14083847773837265618">>,
    <<"-123456789012345678901234567890", "-6692605942", "-14083847773837265618">>,
    <<"170141183460469231731687303715884105727",
      "9223372036854775807", "18446744073709551615">>,
    <<"-170141183460469231731687303715884105728", "-9223372036854775808", "0">> >>

\* C5: for each of the seven values of the table, i128ToHiLo returns exactly
\* the hi and lo strings of its row.
C5_TableEncode ==
    Encoded =>
        \A i \in DOMAIN C5_Table :
            Num(value) = IntOf(C5_Table[i][1])
                => pair = [hi |-> C5_Table[i][2], lo |-> C5_Table[i][3]]

C5_Witness ==
    /\ Encoded /\ pc = "encoded"
    /\ Num(value) = IntOf("-123456789012345678901234567890")
    /\ pair.hi = "-6692605942"

\* C6: for each pair of the table, hiLoToI128(hi, lo) returns exactly the
\* value of the row.
C6_TableDecode ==
    (origin = "pair" /\ pc \in {"decoded", "reencoded"}) =>
        \A i \in DOMAIN C5_Table :
            pair = [hi |-> C5_Table[i][2], lo |-> C5_Table[i][3]]
                => /\ ~decoded.threw
                   /\ ~("nan" \in DOMAIN decoded.val /\ decoded.val.nan)
                   /\ Num(decoded.val) = IntOf(C5_Table[i][1])

C6_Witness ==
    /\ origin = "pair" /\ pc = "decoded"
    /\ pair = [hi |-> "-6692605942", lo |-> "-14083847773837265618"]
    /\ Num(decoded.val) = IntOf("-123456789012345678901234567890")

\* C7: inverse law - for every pair that i128ToHiLo returns for a value in
\* [-2^127, 2^127-1], i128ToHiLo(hiLoToI128(hi, lo)) returns the same pair,
\* string for string.
C7_InverseLaw ==
    /\ (origin = "value" /\ pc = "decoded" /\ InRange(value)) => ~decoded.threw
    /\ (origin = "value" /\ pc = "reencoded" /\ InRange(value)) => pair2 = pair

C7_Witness ==
    /\ origin = "value" /\ pc = "reencoded" /\ InRange(value)
    /\ value.neg /\ pair2 = pair
    /\ pair.hi = "0" /\ pair.lo # "0"

\* C8: lo is the truncating remainder of value by 2^64 - zero or of the sign
\* of value, with |lo| = |value| mod 2^64 (for value = -1, lo = -1).
C8_LoTruncatingRemainder ==
    Encoded =>
        LET lo == IntOf(pair.lo)
        IN  /\ lo.mag = <<>> \/ lo.neg = value.neg
            /\ MagCmp(lo.mag, Two64) < 0
            /\ MagCmp(lo.mag, value.mag) <= 0
            /\ IsMultipleOfTwo64(MagSub(value.mag, lo.mag))
            /\ Num(value) = IntOf("-1") => pair.lo = "-1"

C8_Witness ==
    /\ Encoded /\ value.neg
    /\ Len(value.mag) > 64 \div LimbBits
    /\ IntOf(pair.lo).neg
    /\ BigIntCmp(IntOf(pair.lo), INT64_MIN) < 0

\* C9: hi is the quotient of value by 2^64 rounded toward zero - for
\* value >= 0, floor(value / 2^64); for value < 0, -floor(|value| / 2^64);
\* hence 0 whenever |value| < 2^64.
C9_HiTruncatedQuotient ==
    Encoded =>
        LET hi == IntOf(pair.hi)
        IN  /\ hi.mag = <<>> \/ hi.neg = value.neg
            /\ MagCmp(MagMul(hi.mag, Two64), value.mag) <= 0
            /\ MagCmp(value.mag, MagMul(MagAdd(hi.mag, <<1>>), Two64)) < 0
            /\ MagCmp(value.mag, Two64) < 0 => pair.hi = "0"

C9_Witness ==
    /\ Encoded /\ value.neg
    /\ ~IsMultipleOfTwo64(value.mag)
    /\ IntOf(pair.hi).neg
    /\ pair.hi # "-1"

\* C10: for every value in [-2^127, 2^127-1], hi lies in [-2^63, 2^63-1]; it
\* is -2^63 only at value = -2^127 and 2^63-1 only for
\* values >= (2^63-1) * 2^64.
C10_HiInSigned64 ==
    (Encoded /\ InRange(value)) =>
        LET hi == IntOf(pair.hi)
        IN  /\ BigIntCmp(hi, INT64_MIN) >= 0
            /\ BigIntCmp(hi, INT64_MAX) <= 0
            /\ hi = INT64_MIN => Num(value) = I128_MIN
            /\ hi = INT64_MAX =>
                 BigIntCmp(Num(value),
                           BigIntMul(INT64_MAX, BigIntOf(FALSE, Two64))) >= 0

C10_Witness ==
    /\ Encoded /\ InRange(value)
    /\ IntOf(pair.hi) = INT64_MIN
    /\ Num(value) = I128_MIN

\* C11: for any integer value, in range or not, the lo part returned by
\* i128ToHiLo satisfies -(2^64-1) <= lo <= 2^64-1.
C11_LoBoundAnyValue ==
    Encoded => MagCmp(IntOf(pair.lo).mag, Two64) < 0

C11_Witness ==
    /\ Encoded /\ ~InRange(value)
    /\ IntOf(pair.lo).mag = UINT64_MAX.mag
    /\ IntOf(pair.lo).neg

\* m * 2^64, as a shift by four limbs
TimesTwo64(m) == IF m = <<>> THEN <<>> ELSE Zeros(64 \div LimbBits) \o m

\* C12: hiLoToI128(hi, lo) returns exactly hi * 2^64 + lo for any integer
\* inputs, without range restriction or wrap-around at 64 or 128 bits.
C12_DecodeExactAnyInput ==
    (pc \in {"decoded", "reencoded"} /\ IsInteger(pair.hi) /\ IsInteger(pair.lo))
        => /\ ~decoded.threw
           /\ IsNumber(decoded.val)
           /\ BigIntAdd(Num(decoded.val), BigIntNeg(IntOf(pair.lo)))
                = BigIntOf(IntOf(pair.hi).neg, TimesTwo64(IntOf(pair.hi).mag))

C12_Witness ==
    /\ origin = "pair" /\ pc = "decoded"
    /\ pair = [hi |-> "-9223372036854775809", lo |-> "18446744073709551615"]
    /\ ~decoded.threw
    /\ Num(decoded.val) = IntOf("-170141183460469231731687303715884105729")

\* C13: hiLoToI128 signals an error, and returns no value, whenever hi or lo
\* is a string that is not a signed base-10 integer, the empty string included.
C13_MalformedSignalsError ==
    (pc \in {"decoded", "reencoded"} /\ (~IsInteger(pair.hi) \/ ~IsInteger(pair.lo)))
        => decoded.threw

\* hi lies outside the signed 64-bit range
HiOutsideSigned64(hi) == BigIntCmp(hi, INT64_MIN) < 0 \/ BigIntCmp(hi, INT64_MAX) > 0

\* C14 as stated: for any value outside [-2^127, 2^127-1], i128ToHiLo returns
\* a pair with hi * 2^64 + lo = value, so that hi falls outside
\* [-2^63, 2^63-1].
C14_OutOfRangeHiOutside ==
    (Encoded /\ ~InRange(value))
        => /\ BigIntAdd(BigIntMul(IntOf(pair.hi), TWO_POW_64), IntOf(pair.lo)) = Num(value)
           /\ HiOutsideSigned64(IntOf(pair.hi))

\* C14 amended: for any value outside [-2^127, 2^127-1], i128ToHiLo returns a
\* pair with hi * 2^64 + lo = value; hi falls outside [-2^63, 2^63-1], except
\* for -2^127 - 2^64 < value < -2^127, where hi = -2^63 and lo < 0.
C14_OutOfRangeExact ==
    (Encoded /\ ~InRange(value))
        => /\ BigIntAdd(BigIntMul(IntOf(pair.hi), TWO_POW_64), IntOf(pair.lo)) = Num(value)
           /\ \/ HiOutsideSigned64(IntOf(pair.hi))
              \/ /\ IntOf(pair.hi) = INT64_MIN
                 /\ IntOf(pair.lo).neg
                 /\ BigIntCmp(Num(value), I128_MIN) < 0
                 /\ BigIntCmp(Num(value), BigIntAdd(I128_MIN, BigIntNeg(TWO_POW_64))) > 0

C14_Witness ==
    /\ Encoded /\ ~InRange(value)
    /\ pair.hi = "-9223372036854775808"
    /\ pair.lo = "-1"

\* s is a canonical base-10 integer: "0", or digits without a leading zero,
\* preceded by "-" for a negative number and by nothing else
IsCanonical(s) ==
    LET digits == IF Len(s) >= 1 /\ Head(s) = "-" THEN Tail(s) ELSE s
    IN  \/ s = "0"
        \/ /\ digits # ""
           /\ IsDigits(digits)
           /\ Head(digits) # "0"

\* C15: the hi and lo strings are canonical base-10 integers - a leading "-"
\* exactly when the part is negative, never "+", no leading zeros, a zero part
\* always "0" and never "-0": lo = "0" for every negative multiple of 2^64 and
\* hi = "0" for every negative value with |value| < 2^64.
C15_CanonicalStrings ==
    Encoded =>
        /\ IsCanonical(pair.hi)
        /\ IsCanonical(pair.lo)
        /\ (Head(pair.lo) = "-") <=> (value.neg /\ ~IsMultipleOfTwo64(value.mag))
        /\ (Head(pair.hi) = "-") <=> (value.neg /\ MagCmp(value.mag, Two64) >= 0)
        /\ (value.neg /\ IsMultipleOfTwo64(value.mag)) => pair.lo = "0"
        /\ (value.neg /\ MagCmp(value.mag, Two64) < 0) => pair.hi = "0"

C15_Witness ==
    /\ Encoded /\ value.neg
    /\ IsMultipleOfTwo64(value.mag)
    /\ pair.lo = "0"
    /\ Head(pair.hi) = "-"

\* The other revision of the codec
Other(r) == IF r = "BigInt" THEN "BigNumber" ELSE "BigInt"

\* C16: the BigNumber and the BigInt revision agree - for every value in
\* [-2^127, 2^127-1] both i128ToHiLo return the same strings, and for every
\* pair of integer decimal strings both hiLoToI128 return the same integer.
C16_RevisionsAgree ==
    /\ (Encoded /\ InRange(value))
         => pair = Encode(Other(rev), ValueOf(Other(rev), Num(value)))
    /\ (pc \in {"decoded", "reencoded"} /\ IsInteger(pair.hi) /\ IsInteger(pair.lo))
         => LET other == Decode(Other(rev), pair.hi, pair.lo)
            IN  /\ ~decoded.threw /\ ~other.threw
                /\ IsNumber(decoded.val) /\ IsNumber(other.val)
                /\ Num(decoded.val) = Num(other.val)

C16_Witness ==
    /\ rev = "BigNumber" /\ origin = "value" /\ pc = "decoded" /\ InRange(value)
    /\ value.neg /\ Head(pair.lo) = "-" /\ pair.hi = "0"
    /\ pair = i128ToHiLo(Num(value))

\* C19: for every value in [0, 2^127-1], i128ToHiLo is the standard
\* two's-complement split - lo = value mod 2^64 in [0, 2^64-1] and
\* hi = floor(value / 2^64) in [0, 2^63-1] - so that the Int64(hi) and
\* Uint64(lo) words of convertToI128ScVal represent value.
C19_NonNegativeWireField ==
    (pc = "converted" /\ ~Num(value).neg /\ InRange(value))
        => /\ ~scval.threw
           /\ ~scval.lo.neg /\ MagCmp(scval.lo.mag, Two64) < 0
           /\ ~scval.hi.neg /\ BigIntCmp(scval.hi, INT64_MAX) <= 0
           /\ MagCmp(scval.lo.mag, value.mag) <= 0
           /\ MagSub(value.mag, scval.lo.mag) = TimesTwo64(scval.hi.mag)

C19_Witness ==
    /\ pc = "converted" /\ ~Num(value).neg /\ InRange(value)
    /\ ~scval.threw
    /\ BigIntCmp(scval.lo, INT64_MAX) > 0
    /\ scval.hi.mag # <<>>

\* C20: for every integer value, hi and lo never have opposite signs - each
\* is zero or has the sign of value.
C20_NoOppositeSigns ==
    Encoded =>
        LET hi == IntOf(pair.hi)
            lo == IntOf(pair.lo)
        IN  /\ hi.mag = <<>> \/ hi.neg = Num(value).neg
            /\ lo.mag = <<>> \/ lo.neg = Num(value).neg
            /\ ~(hi.mag # <<>> /\ lo.mag # <<>> /\ hi.neg # lo.neg)

C20_Witness ==
    /\ Encoded /\ ~InRange(value)
    /\ IntOf(pair.hi).neg /\ IntOf(pair.lo).neg
    /\ Head(pair.hi) = "-" /\ Head(pair.lo) = "-"
    /\ pc = "reencoded"

\* C17: a call of i128ToHiLo or hiLoToI128 changes nothing but its own result:
\* the argument value, the revision in use, the pair a decoder was given, and
\* the results of earlier calls are the same after the call as before it.
C17_NoSideEffects ==
    [][/\ rev' = rev /\ origin' = origin /\ value' = value
       /\ calls' = calls /\ locals' = locals
       /\ (pc = "start" => decoded' = decoded /\ pair2' = pair2)
       /\ (pc = "encoded" => pair' = pair /\ pair2' = pair2 /\ scval' = scval)
       /\ (pc = "decoded" => pair' = pair /\ decoded' = decoded /\ scval' = scval)]_vars

C17_Witness ==
    /\ pc = "reencoded" /\ origin = "value"
    /\ value.neg /\ Len(value.mag) > 64 \div LimbBits
    /\ pair2 = pair /\ Num(decoded.val) = Num(value)

\* C18: under any interleaving of concurrent i128ToHiLo and hiLoToI128 calls,
\* each call returns the result it returns when run alone on its arguments.
C18_CallsIndependent ==
    \A c \in DOMAIN calls :
        calls[c].line = 0 =>
            calls[c].result =
                IF calls[c].op = "i128ToHiLo" THEN Encode(rev, calls[c].value)
                ELSE Decode(rev, calls[c].hi, calls[c].lo)

C18_Witness ==
    \E c, d \in DOMAIN calls :
        /\ c # d
        /\ calls[c].op = "i128ToHiLo" /\ calls[c].line = 0
        /\ calls[c].result = Encode(rev, calls[c].value)
        /\ calls[d].op = "i128ToHiLo" /\ calls[d].line = 3
        /\ calls[d].value # calls[c].value

\* -value, as the caller of the codec writes it in either revision
Negated(r, v) == IF r = "BigInt" THEN BigIntNeg(v) ELSE [v EXCEPT !.neg = ~@]

\* C21: odd symmetry.  For every value such that value and -value are both in
\* [-2^127, 2^127-1], i128ToHiLo(-value) returns the negation of each part of
\* i128ToHiLo(value).
C21_OddSymmetry ==
    (Encoded /\ InRange(value) /\ InRange(Negated(rev, value))) =>
        LET mirrored == Encode(rev, Negated(rev, value))
        IN  /\ IntOf(mirrored.hi) = BigIntNeg(IntOf(pair.hi))
            /\ IntOf(mirrored.lo) = BigIntNeg(IntOf(pair.lo))

C21_Witness ==
    /\ Encoded /\ InRange(value) /\ InRange(Negated(rev, value))
    /\ IntOf(pair.hi).mag # <<>> /\ IntOf(pair.lo).mag # <<>>
    /\ Encode(rev, Negated(rev, value)).lo = BigIntToString(BigIntNeg(IntOf(pair.lo)))
    /\ Encode(rev, Negated(rev, value)).hi = BigIntToString(BigIntNeg(IntOf(pair.hi)))

\* The pair (hi, lo) of integers is in the image of i128ToHiLo:
\* |lo| <= 2^64 - 1 and hi, lo are not of opposite signs
SignConsistent(hi, lo) ==
    /\ MagCmp(lo.mag, Two64) < 0
    /\ ~(hi.mag # <<>> /\ lo.mag # <<>> /\ hi.neg # lo.neg)

\* C22: for every pair of integers (hi, lo) with |lo| <= 2^64-1 and hi, lo not
\* of opposite signs, i128ToHiLo(hiLoToI128(hi, lo)) returns exactly (hi, lo).
C22_ImageRoundTrip ==
    (/\ origin = "pair" /\ pc = "reencoded"
     /\ IsInteger(pair.hi) /\ IsInteger(pair.lo)
     /\ SignConsistent(IntOf(pair.hi), IntOf(pair.lo))) =>
        /\ IntOf(pair2.hi) = IntOf(pair.hi)
        /\ IntOf(pair2.lo) = IntOf(pair.lo)

C22_Witness ==
    /\ origin = "pair" /\ pc = "reencoded"
    /\ IsInteger(pair.hi) /\ IsInteger(pair.lo)
    /\ SignConsistent(IntOf(pair.hi), IntOf(pair.lo))
    /\ IntOf(pair.hi).neg /\ IntOf(pair.lo).neg
    /\ HiOutsideSigned64(IntOf(pair.hi))
    /\ pair2 = pair

\* null, undefined and the BigInt 0n are the falsy values among the arguments
IsFalsy(r, v) == "missing" \in DOMAIN v \/ (r = "BigInt" /\ v.mag = <<>>)

\* C25: convertToI128ScVal encodes a missing value (null, undefined or any
\* falsy value) as the 128-bit zero {hi: '0', lo: '0'} without calling
\* i128ToHiLo, and this is the pair i128ToHiLo returns for the value 0.
C25_MissingIsZero ==
    (pc = "converted" /\ IsFalsy(rev, value)) =>
        /\ pair = NoPair
        /\ scval = Int128Parts([hi |-> "0", lo |-> "0"])
        /\ ~scval.threw /\ scval.hi = BigIntZero /\ scval.lo = BigIntZero
        /\ Encode(rev, ValueOf(rev, BigIntZero)) = [hi |-> "0", lo |-> "0"]

C25_Witness ==
    /\ pc = "converted" /\ origin = "missing" /\ value.missing = "undefined"
    /\ pair = NoPair
    /\ scval = Int128Parts(Encode(rev, ValueOf(rev, BigIntZero)))

\* C23: submitTransaction returns only a response whose status is neither
\* 'PENDING' nor 'NOT_FOUND'; every poll asks for the hash the submission
\* returned, the loop is left only on a final status, and the response
\* returned is the last one polled with its hash field set to that hash.
C23_ReturnsFinalResponse ==
    /\ server.polls > 0 => server.asked = submitResult.hash
    /\ line \in {"setHash", "return"} => ~(response.status \in {"PENDING", "NOT_FOUND"})
    /\ outcome.kind = "returned" =>
        /\ ~(outcome.value.status \in {"PENDING", "NOT_FOUND"})
        /\ submitResult.status = "PENDING"
        /\ outcome.value = [server.answer EXCEPT !.hash = submitResult.hash]

C23_Witness ==
    /\ outcome.kind = "returned"
    /\ server.polls >= 2
    /\ server.answer.hash \notin {"", submitResult.hash}
    /\ outcome.value = [status |-> "FAILED", hash |-> submitResult.hash]
    /\ server.sent = <<"sigA", "sigB">>

\* C24: once a poll of an accepted submission is answered with a status other
\* than 'PENDING' and 'NOT_FOUND', submitTransaction eventually returns; and
\* while the status is 'PENDING' or 'NOT_FOUND' the loop always polls again,
\* however many polls there have been.
C24_ReturnsOnFinalStatus ==
    /\ (line \in {"while", "sleep"} /\ ~(response.status \in {"PENDING", "NOT_FOUND"}))
           ~> (outcome.kind = "returned")
    /\ [][(line = "while" /\ response.status \in {"PENDING", "NOT_FOUND"})
             => line' = "poll"]_vars
    /\ [](outcome.kind = "returned" => ~(outcome.value.status \in {"PENDING", "NOT_FOUND"}))

C24_Witness ==
    /\ outcome.kind = "returned"
    /\ server.polls = MaxPolls
    /\ outcome.value.status = "SUCCESS"

====
